---- MODULE Spec2Model ----
(***************************************************************************)
(* Model of the sheet-to-diagram pipeline of structurizr_excel:            *)
(*   cli.main  =  load_excel ; validate ; build_workspace ; write          *)
(* and of build_workspace called directly as a library function; and, as a  *)
(* second specification, of the stand-alone script generate_pystructurizr, *)
(* which shares the loops over containers and flows and the upward copy    *)
(* but derives one process view per system.  build_workspace is also      *)
(* given as a function of its arguments (BuildSteps), which serves to      *)
(* compare builds and to run a second call next to the first (SpecPair).   *)
(*                                                                         *)
(* Text whose characters matter (the BusinessProcess cell of a flow, the   *)
(* ID and Name of a business process) is a sequence of one-character       *)
(* strings, so that lower(), re.split and capitalize() are computed.       *)
(* Identifiers that are only compared for equality (application IDs,       *)
(* Objet, Protocol, Format, Status) are plain strings.                     *)
(*                                                                         *)
(* Python objects (Group, Container) are numbered in creation order: a     *)
(* node is its position in the sequence nodes.  A dict is the sequence of  *)
(* its [k, v] items in insertion order.  A tag "proc:x" is the record      *)
(* [ns |-> "proc", val |-> x], "status:x" is [ns |-> "status", val |-> x]. *)
(***************************************************************************)
EXTENDS Integers, Sequences, FiniteSets, TLC

VARIABLES
    entry,            \* "cli": cli.main runs;  "lib": build_workspace is called directly;
                      \* "script": generate_pystructurizr.main runs
    views_spec,       \* the --views option of the script, as the set of its tokens
    apps_columns,     \* set(apps.columns)
    flows_columns,    \* set(flows.columns)
    procs_columns,    \* set(procs.columns)
    apps,             \* Applications rows (after load_excel)
    flows,            \* Flows rows
    procs,            \* BusinessProcesses rows
    pc,               \* position in main / build_workspace
    idx,              \* 1-based position of the running loop
    nodes,            \* every Group and Container object created, in creation order
    org_systems,      \* dict organisation name -> SoftwareSystem
    elem_by_id,       \* dict ID -> node
    groups_by_id,     \* dict ID -> Group node
    container_parent, \* dict Container node -> Group node
    seen,             \* set of relationship keys
    rels,             \* relationships created by src.uses(dst, ...)
    views,            \* ws.views
    styled,           \* ws.Styles(*STYLES) was called
    warnings,         \* logging.warning calls
    error,            \* the exception raised, or NoError
    dsl_written,      \* workspace.dsl was written
    exit_code,        \* -1 while running
    logged_error,     \* the exception passed to logging.error, or NoError
    peer              \* a second build_workspace call running at the same time: its
                      \* arguments, locals and position; NoPeer when there is none

vars == << entry, views_spec, apps_columns, flows_columns, procs_columns, apps, flows,
           procs, pc, idx, nodes, org_systems, elem_by_id, groups_by_id, container_parent,
           seen, rels, views, styled, warnings, error, dsl_written, exit_code,
           logged_error, peer >>

----------------------------------------------------------------------------
(* Sequences and dicts *)

Range(s) == { s[k] : k \in 1..Len(s) }

Contains(s, x) == \E k \in 1..Len(s) : s[k] = x

\* d.get(k): the value, or 0 (None) when k is no key of d
DictGet(d, k) ==
    IF \E j \in 1..Len(d) : d[j].k = k
    THEN d[CHOOSE j \in 1..Len(d) : d[j].k = k].v
    ELSE 0

\* d[k] = v: an existing key keeps its place, a new key goes last
DictPut(d, k, v) ==
    IF \E j \in 1..Len(d) : d[j].k = k
    THEN [ j \in 1..Len(d) |-> IF d[j].k = k THEN [k |-> k, v |-> v] ELSE d[j] ]
    ELSE Append(d, [k |-> k, v |-> v])

DictValues(d) == [ j \in 1..Len(d) |-> d[j].v ]

\* tags.append(t) unless t is already in tags
AppendNew(tags, t) == IF Contains(tags, t) THEN tags ELSE Append(tags, t)

----------------------------------------------------------------------------
(* Characters *)

Letters == { "p", "q", "P", "Q" }
Digits == { "1" }
Blank == " "
Chars == Letters \cup Digits \cup { ",", ";", Blank, "-" }

Lower(c) == CASE c = "P" -> "p" [] c = "Q" -> "q" [] OTHER -> c
Upper(c) == CASE c = "p" -> "P" [] c = "q" -> "Q" [] OTHER -> c

StrLower(s) == [ k \in 1..Len(s) |-> Lower(s[k]) ]

\* str.strip(): leading and trailing whitespace removed
RECURSIVE LStrip(_)
LStrip(s) == IF s # << >> /\ Head(s) = Blank THEN LStrip(Tail(s)) ELSE s

RECURSIVE RStrip(_)
RStrip(s) ==
    IF s # << >> /\ s[Len(s)] = Blank THEN RStrip(SubSeq(s, 1, Len(s) - 1)) ELSE s

Strip(s) == RStrip(LStrip(s))

\* re.split(pattern, s) for a pattern that matches single characters of Sep:
\* the pieces between separator characters, empty pieces included
RECURSIVE SplitOn(_, _, _)
SplitOn(s, Sep, cur) ==
    IF s = << >> THEN << cur >>
    ELSE IF Head(s) \in Sep THEN << cur >> \o SplitOn(Tail(s), Sep, << >>)
    ELSE SplitOn(Tail(s), Sep, Append(cur, Head(s)))

\* re.split(r"[...]+", s): a run of separator characters separates two pieces;
\* a leading or trailing run leaves an empty first or last piece
RECURSIVE SkipSep(_, _)
SkipSep(s, Sep) == IF s # << >> /\ Head(s) \in Sep THEN SkipSep(Tail(s), Sep) ELSE s

RECURSIVE SplitRuns(_, _, _)
SplitRuns(s, Sep, cur) ==
    IF s = << >> THEN << cur >>
    ELSE IF Head(s) \in Sep THEN << cur >> \o SplitRuns(SkipSep(s, Sep), Sep, << >>)
    ELSE SplitRuns(Tail(s), Sep, Append(cur, Head(s)))

MultiSep == { ";", ",", Blank }

\* split_multi(txt): the set of lower-case tokens of a multi-value cell
split_multi(txt) ==
    IF Strip(txt) = << >> THEN { }
    ELSE { t \in Range(SplitRuns(StrLower(txt), MultiSep, << >>)) : t # << >> }

\* str.capitalize(): first character upper-cased, the rest lower-cased
Capitalize(w) == << Upper(w[1]) >> \o StrLower(Tail(w))

NonAlnum == Chars \ (Letters \cup Digits)

RECURSIVE CamelWords(_)
CamelWords(ws) ==
    IF ws = << >> THEN << >>
    ELSE (IF Head(ws) = << >> THEN << >> ELSE Capitalize(Head(ws))) \o CamelWords(Tail(ws))

\* camel(txt): the capitalized alphanumeric words of txt, joined
camel(txt) == CamelWords(SplitOn(txt, NonAlnum, << >>))

----------------------------------------------------------------------------
(* Tags *)

\* val is a character sequence for a proc tag, and the whole (opaque) string as a
\* one-element sequence for the others
ProcTag(token) == [ns |-> "proc", val |-> token]

\* (mutant of StatusTag) the status is written as a process tag
StatusTag_AsProcTag(status) ==
    [ns |-> "proc", val |-> << IF status = "" THEN "keep" ELSE status >>]

StatusTag(status) == [ns |-> "status", val |-> << IF status = "" THEN "keep" ELSE status >>]
KindTag(name) == [ns |-> "kind", val |-> << name >>]

\* tag.startswith("proc:")
IsProcTag(t) == t.ns = "proc"

----------------------------------------------------------------------------
(* validate *)

REQUIRED_APP ==
    { "ID", "Name", "Application", "Component", "ParentAppID", "Status", "Organisation" }

REQUIRED_FLOW ==
    { "ID", "Name", "Outbound", "Inbound", "Objet", "Protocol", "Format", "Tags",
      "BusinessProcess" }

NoError == [kind |-> "none"]

\* set(apps["ID"])
IdSet(a) == { a[k].ID : k \in 1..Len(a) }

\* the positions where flag holds, as pandas index labels (0-based), in order
RECURSIVE IndexWhere(_, _)
IndexWhere(flag, k) ==
    IF k > Len(flag) THEN << >>
    ELSE (IF flag[k] THEN << k - 1 >> ELSE << >>) \o IndexWhere(flag, k + 1)

\* (mutant of BadParentRows) only the first offending row is reported
BadParentRows_FirstOnly(a) ==
    LET all == IndexWhere([k \in 1..Len(a) |->
                              a[k].Component /\ a[k].ParentAppID \notin IdSet(a)], 1)
    IN  IF all = << >> THEN << >> ELSE << Head(all) >>

\* (mutant of BadParentRows) the parent is looked up among the IDs of the rows flagged
\* Application
BadParentRows_GroupsOnly(a) ==
    IndexWhere([k \in 1..Len(a) |->
                   a[k].Component
                   /\ a[k].ParentAppID \notin { a[j].ID : j \in { i \in 1..Len(a) : a[i].Application } }],
               1)

\* apps[(apps["Component"] == "#") & (~apps["ParentAppID"].isin(ids))].index
BadParentRows(a) ==
    IndexWhere([k \in 1..Len(a) |-> a[k].Component /\ a[k].ParentAppID \notin IdSet(a)], 1)

\* flows[~flows[col].isin(ids)].index
BadEndpointRows(a, f, col) ==
    IndexWhere([k \in 1..Len(f) |-> f[k][col] \notin IdSet(a)], 1)

\* validate(apps, flows): the ValueError it raises, or NoError
ValidateResult(acols, fcols, a, f) ==
    IF REQUIRED_APP \ acols # { }
    THEN [kind |-> "ValueError", what |-> "Applications missing columns",
          cols |-> REQUIRED_APP \ acols, rows |-> << >>]
    ELSE IF REQUIRED_FLOW \ fcols # { }
    THEN [kind |-> "ValueError", what |-> "Flows missing columns",
          cols |-> REQUIRED_FLOW \ fcols, rows |-> << >>]
    ELSE IF BadParentRows(a) # << >>
    THEN [kind |-> "ValueError", what |-> "Invalid ParentAppID rows",
          cols |-> { }, rows |-> BadParentRows(a)]
    ELSE IF BadEndpointRows(a, f, "Outbound") # << >>
    THEN [kind |-> "ValueError", what |-> "Outbound unknown IDs rows",
          cols |-> { }, rows |-> BadEndpointRows(a, f, "Outbound")]
    ELSE IF BadEndpointRows(a, f, "Inbound") # << >>
    THEN [kind |-> "ValueError", what |-> "Inbound unknown IDs rows",
          cols |-> { }, rows |-> BadEndpointRows(a, f, "Inbound")]
    ELSE NoError

----------------------------------------------------------------------------
(* build_workspace: one operator per loop body *)

BASE_SYS_NAME == "Process Views"

OrgName(row) == IF row.Organisation = "" THEN "Unknown" ELSE row.Organisation

\* body of the loop over the rows with Application == "#": a new Group
GroupNode(row, r) ==
    [kind |-> "Group", id |-> row.ID, row |-> r, name |-> row.Name,
     description |-> "", system |-> OrgName(row), parent |-> 0,
     tags |-> << KindTag("ApplicationGroup"), StatusTag(row.Status) >>,
     elements |-> << >>]

\* groups_by_id.get(row["ParentAppID"]), 0 when the container row is skipped
ParentOf(gbi, row) == DictGet(gbi, row.ParentAppID)

\* (mutant of ContainerNode) the container does not record its parent
ContainerNode_NoParent(row, r, parent) ==
    [kind |-> "Container", id |-> row.ID, row |-> r, name |-> row.Name,
     description |-> "", system |-> "", parent |-> 0,
     tags |-> << KindTag("ApplicationContainer"), StatusTag(row.Status) >>,
     elements |-> << >>]

\* parent.Container(...): a new Container under the Group parent
ContainerNode(row, r, parent) ==
    [kind |-> "Container", id |-> row.ID, row |-> r, name |-> row.Name,
     description |-> "", system |-> "", parent |-> parent,
     tags |-> << KindTag("ApplicationContainer"), StatusTag(row.Status) >>,
     elements |-> << >>]

\* (mutant of FlowKey) the key leaves out Objet
FlowKey_NoObjet(f) == << f.Outbound, f.Inbound, f.Protocol, f.Format >>

\* the deduplication key of a flow row
FlowKey(f) == << f.Outbound, f.Inbound, f.Objet, f.Protocol, f.Format >>

\* (mutant of FlowSkipped) only the source is looked up before the row is used
FlowSkipped_SourceOnly(ebi, sn, f) ==
    \/ DictGet(ebi, f.Outbound) = 0
    \/ FlowKey(f) \in sn

\* the flow row is skipped: an endpoint is unresolved, or its key was seen
FlowSkipped(ebi, sn, f) ==
    \/ DictGet(ebi, f.Outbound) = 0
    \/ DictGet(ebi, f.Inbound) = 0
    \/ FlowKey(f) \in sn

\* (mutant of Relationship) the edge goes from the Inbound node to the Outbound node
Relationship_Reversed(ebi, f, r) ==
    [src |-> DictGet(ebi, f.Inbound), dst |-> DictGet(ebi, f.Outbound),
     desc |-> IF f.Name = "" THEN f.Objet ELSE f.Name,
     protocol |-> f.Protocol, row |-> r]

\* src.uses(dst, desc, f["Protocol"])
Relationship(ebi, f, r) ==
    [src |-> DictGet(ebi, f.Outbound), dst |-> DictGet(ebi, f.Inbound),
     desc |-> IF f.Name = "" THEN f.Objet ELSE f.Name,
     protocol |-> f.Protocol, row |-> r]

\* (mutant of TagBoth) the target is tagged without looking for the tag first
TagBoth_NoCheck(ns, src, dst, tag) ==
    LET n1 == [ns EXCEPT ![src].tags = AppendNew(@, tag)]
    IN  [n1 EXCEPT ![dst].tags = Append(@, tag)]

\* (mutant of TagBoth) the process tag replaces the process tags already there
TagBoth_Overwrite(ns, src, dst, tag) ==
    LET Put(tags) == SelectSeq(tags, LAMBDA t : ~ IsProcTag(t)) \o << tag >>
        n1 == [ns EXCEPT ![src].tags = Put(@)]
    IN  [n1 EXCEPT ![dst].tags = Put(@)]

\* for el in (src, dst): if tag not in el.tags: el.tags.append(tag)
TagBoth(ns, src, dst, tag) ==
    LET n1 == [ns EXCEPT ![src].tags = AppendNew(@, tag)]
    IN  [n1 EXCEPT ![dst].tags = AppendNew(@, tag)]

\* the loop over split_multi(f["BusinessProcess"]), tokens taken in the order given
RECURSIVE TagTokens(_, _, _, _)
TagTokens(ns, src, dst, tokens) ==
    IF tokens = << >> THEN ns
    ELSE TagTokens(TagBoth(ns, src, dst, ProcTag(Head(tokens))), src, dst, Tail(tokens))

\* the orders in which a Python set of tokens can be iterated
Orders(S) ==
    { o \in [1..Cardinality(S) -> S] : \A x \in S : \E k \in 1..Cardinality(S) : o[k] = x }

\* (mutant of CopyProcTags) the container's process tags replace the group's
CopyProcTags_Overwrite(ctags, gtags) ==
    SelectSeq(gtags, LAMBDA t : ~ IsProcTag(t)) \o SelectSeq(ctags, IsProcTag)

\* (mutant of CopyProcTags) every tag of the container the group lacks is copied
CopyProcTags_All(ctags, gtags) ==
    gtags \o SelectSeq(ctags, LAMBDA t : ~ Contains(gtags, t))

\* for tag in cont.tags: if tag.startswith("proc:") and tag not in grp.tags: append
RECURSIVE CopyProcTags(_, _)
CopyProcTags(ctags, gtags) ==
    IF ctags = << >> THEN gtags
    ELSE CopyProcTags(Tail(ctags),
                      IF IsProcTag(Head(ctags)) THEN AppendNew(gtags, Head(ctags))
                      ELSE gtags)

\* (mutant of TaggedIn) every element of a group that has a tagged element
TaggedIn_WholeGroup(ns, elems, tag) ==
    IF \E k \in 1..Len(elems) : Contains(ns[elems[k]].tags, tag) THEN elems ELSE << >>

\* the elements c of grp with tag in c.tags, in the order of grp.elements
RECURSIVE TaggedIn(_, _, _)
TaggedIn(ns, elems, tag) ==
    IF elems = << >> THEN << >>
    ELSE (IF Contains(ns[Head(elems)].tags, tag) THEN << Head(elems) >> ELSE << >>)
         \o TaggedIn(ns, Tail(elems), tag)

\* the view.include(c) calls of one process view: groups_by_id.values() in order,
\* and in each group its tagged elements
RECURSIVE ViewIncludes(_, _, _)
ViewIncludes(ns, grps, tag) ==
    IF grps = << >> THEN << >>
    ELSE TaggedIn(ns, ns[Head(grps)].elements, tag) \o ViewIncludes(ns, Tail(grps), tag)

ProcKeyPrefix == << "P", "r", "o", "c" >>

\* bp["ID"] and bp["Name"] on a sheet that lacks the column: the KeyError raised by
\* the body of the loop over the BusinessProcesses rows, or NoError
ProcKeyError(pcols, bp) ==
    IF "ID" \notin pcols
    THEN [kind |-> "KeyError", what |-> "ID", cols |-> { }, rows |-> << >>]
    ELSE IF Strip(bp.ID) # << >> /\ "Name" \notin pcols
    THEN [kind |-> "KeyError", what |-> "Name", cols |-> { }, rows |-> << >>]
    ELSE NoError

\* body of the loop over the BusinessProcesses rows with a non-empty ID
ProcessView(ns, gbi, bp, r) ==
    LET pid   == Strip(bp.ID)
        pname == IF Strip(bp.Name) = << >> THEN pid ELSE Strip(bp.Name)
    IN  [key |-> ProcKeyPrefix \o camel(pname), title |-> pname,
         element |-> BASE_SYS_NAME, row |-> r,
         includes |-> ViewIncludes(ns, DictValues(gbi), ProcTag(StrLower(pid)))]

----------------------------------------------------------------------------
(* Inputs *)

MaxApps == 2
MaxFlows == 1
MaxProcs == 1

IdSeq == << "a", "b", "c", "d", "e", "f" >>
NoSuchId == "zz"
Ids == { IdSeq[k] : k \in 1..MaxApps }

AppRow(id, app, comp, parent, status, org) ==
    [ID |-> id, Name |-> "App", Application |-> app, Component |-> comp,
     ParentAppID |-> parent, Status |-> status, Organisation |-> org]

FlowRow(out, inb, name, objet, protocol, format, cell) ==
    [ID |-> "F", Name |-> name, Outbound |-> out, Inbound |-> inb, Objet |-> objet,
     Protocol |-> protocol, Format |-> format, Tags |-> "", BusinessProcess |-> cell]

ProcRow(id, name) == [ID |-> id, Name |-> name]

\* the flags and parent of a row: a parent only on rows flagged Component
AppShapes ==
    { [app |-> a, comp |-> FALSE, parent |-> ""] : a \in BOOLEAN }
    \cup { [app |-> a, comp |-> TRUE, parent |-> p] : a \in BOOLEAN, p \in Ids \cup { NoSuchId } }

\* ID columns up to renaming: each row repeats an earlier ID or takes the next fresh one
IdColumns ==
    { c \in [1..MaxApps -> 1..MaxApps] :
        /\ c[1] = 1
        /\ \A k \in 2..MaxApps : \E j \in 1..(k - 1) : c[k] <= c[j] + 1 }

AppsWide ==
    { [k \in 1..MaxApps |->
          AppRow(IdSeq[c[k]], sh[k].app, sh[k].comp, sh[k].parent, "", "org1")] :
      c \in IdColumns, sh \in [1..MaxApps -> AppShapes] }

AppsCore ==
    { << AppRow("a", TRUE, FALSE, "", "", "org1"),
         AppRow("b", FALSE, TRUE, "a", "add", "org1"),
         AppRow("c", FALSE, TRUE, "a", "", "org1") >>,
      << AppRow("a", TRUE, TRUE, "a", "", ""),
         AppRow("b", FALSE, FALSE, "", "", "org1"),
         AppRow("c", FALSE, TRUE, "b", "change", "org1") >>,
      << AppRow("a", TRUE, FALSE, "", "remove", "org1"),
         AppRow("a", TRUE, FALSE, "", "", "org2"),
         AppRow("c", FALSE, TRUE, "a", "", "org1"),
         AppRow("b", FALSE, TRUE, "a", "", "org1") >> }

CellPool ==
    { << >>, << "p" >>, << "P", ";", Blank, "q" >> }

FlowEnds ==
    { << "b", "c" >>, << "c", "b" >>, << "b", "b" >>, << "a", "b" >>, << "c", "a" >>,
      << NoSuchId, "b" >>, << "b", NoSuchId >> }

FlowDetails ==
    { [name |-> "", objet |-> "o1", protocol |-> "http", format |-> "json"],
      [name |-> "", objet |-> "o2", protocol |-> "http", format |-> "json"],
      [name |-> "f", objet |-> "o1", protocol |-> "mq", format |-> "xml"] }

FlowRows ==
    { FlowRow(e[1], e[2], d.name, d.objet, d.protocol, d.format, c) :
      e \in FlowEnds, d \in FlowDetails, c \in CellPool }

FlowsWide == [1..MaxFlows -> FlowRows]

\* the flows that go with every Applications table: a repeated key, and a second endpoint
FlowsBasic ==
    << FlowRow("a", "a", "", "o1", "http", "json", << "p" >>),
       FlowRow("a", "a", "", "o1", "http", "json", << "q", ",", "p" >>),
       FlowRow("a", "b", "", "o1", "http", "json", << "p" >>) >>

FlowsCore ==
    { FlowsBasic,
      << FlowRow("b", "c", "", "o1", "http", "json", << "p" >>),
         FlowRow("c", "a", "f", "o2", "mq", "json", << Blank, "Q" >>) >>,
      << FlowRow("b", "b", "", "o1", "http", "json", << "p" >>),
         FlowRow("b", "b", "", "o2", "http", "json", << "p" >>),
         FlowRow("c", "a", "", "o1", "http", "json", << "Q" >>) >>,
      << FlowRow("b", "c", "f", "", "", "", << "p" >>),
         FlowRow("c", "b", "", "", "http", "json", << "p" >>) >> }

ProcIds == { << >>, << "p" >>, << "Q" >>, << "p", Blank, "q" >> }
ProcNames == { << >>, << "p", Blank, "q" >>, << "p", "-", "Q" >>, << "P", "q" >> }
ProcRows == { ProcRow(i, n) : i \in ProcIds, n \in ProcNames }

ProcsWide == UNION { [1..n -> ProcRows] : n \in 0..MaxProcs }

ProcsCore == { << ProcRow(<< "p" >>, << >>) >> }

\* two processes with different IDs and different names
ProcsPairs ==
    { << ProcRow(<< "p" >>, << "p", Blank, "q" >>), ProcRow(<< "Q" >>, << "p", "-", "Q" >>) >>,
      << ProcRow(<< "p" >>, << "P", "q" >>), ProcRow(<< "q" >>, << >>) >> }

PROC_COLUMNS == { "ID", "Name" }

ColumnCases ==
    { [a |-> REQUIRED_APP \ ma, f |-> REQUIRED_FLOW \ mf, p |-> PROC_COLUMNS \ mp] :
      ma \in { { }, { "Organisation" }, { "Status", "ParentAppID" } },
      mf \in { { }, { "Tags" }, { "Tags", "BusinessProcess" } },
      mp \in { { }, { "ID" }, { "Name" } } }

AllColumns == [a |-> REQUIRED_APP, f |-> REQUIRED_FLOW, p |-> PROC_COLUMNS]

\* no second build
NoPeer == [pc |-> "none"]

\* the program starts on the input (e, cols, a, f, p), next to the call other
StartWith(e, vs, cols, a, f, p, other) ==
    /\ entry = e
    /\ views_spec = vs
    /\ apps_columns = cols.a
    /\ flows_columns = cols.f
    /\ procs_columns = cols.p
    /\ apps = a
    /\ flows = f
    /\ procs = p
    /\ pc = IF e = "lib" THEN "groups" ELSE "validate"
    /\ idx = 1
    /\ nodes = << >>
    /\ org_systems = << >>
    /\ elem_by_id = << >>
    /\ groups_by_id = << >>
    /\ container_parent = << >>
    /\ seen = { }
    /\ rels = << >>
    /\ views = << >>
    /\ styled = FALSE
    /\ warnings = << >>
    /\ error = NoError
    /\ dsl_written = FALSE
    /\ exit_code = -1
    /\ logged_error = NoError
    /\ peer = other

\* the program starts on the input (e, cols, a, f, p), alone
Start(e, vs, cols, a, f, p) == StartWith(e, vs, cols, a, f, p, NoPeer)

----------------------------------------------------------------------------
(* The state machine *)

\* Inputs vary one table at a time around the core tables: the Applications table
\* under both entries, the Flows table under build_workspace alone (which takes every
\* table, validate only some), the BusinessProcesses table and the columns under cli.
Init ==
    \/ \E e \in { "cli", "lib" }, a \in AppsWide, p \in ProcsCore :
          Start(e, { }, AllColumns, a, FlowsBasic, p)
    \/ \E a \in AppsCore, f \in FlowsWide, p \in ProcsCore :
          Start("lib", { }, AllColumns, a, f, p)
    \/ \E a \in AppsCore, f \in FlowsCore, p \in ProcsWide \cup ProcsPairs :
          Start("cli", { }, AllColumns, a, f, p)
    \/ \E c \in ColumnCases, a \in AppsCore, f \in FlowsCore, p \in ProcsCore :
          Start("cli", { }, c, a, f, p)

inputs == << entry, views_spec, apps_columns, flows_columns, procs_columns, apps, flows,
            procs >>
graph == << nodes, org_systems, elem_by_id, groups_by_id, container_parent, seen, rels,
            views, styled, warnings >>

\* cli.main: validate(apps, flows)
Validate ==
    /\ pc = "validate"
    /\ error' = ValidateResult(apps_columns, flows_columns, apps, flows)
    /\ pc' = IF error' = NoError THEN "groups" ELSE "raised"
    /\ UNCHANGED << inputs, graph, idx, dsl_written, exit_code, logged_error, peer >>

\* (mutant of ExitOnError) the handler logs the exception and exits with code 0
ExitOnError_ExitZero ==
    /\ pc = "raised"
    /\ entry # "lib"
    /\ pc' = "exited"
    /\ logged_error' = error
    /\ exit_code' = 0
    /\ UNCHANGED << inputs, graph, idx, error, dsl_written, peer >>

\* __main__: except Exception: logging.error(exc); sys.exit(1)
ExitOnError ==
    /\ pc = "raised"
    /\ pc' = "exited"
    /\ entry # "lib"
    /\ logged_error' = error
    /\ exit_code' = 1
    /\ UNCHANGED << inputs, graph, idx, error, dsl_written, peer >>

\* one row of the loop over apps[apps["Application"] == "#"]
GroupRow ==
    /\ pc = "groups"
    /\ idx <= Len(apps)
    /\ LET row == apps[idx]
            g   == Len(nodes) + 1
       IN  IF row.Application
           THEN /\ org_systems' = DictPut(org_systems, OrgName(row),
                                          IF DictGet(org_systems, OrgName(row)) = 0
                                          THEN Len(org_systems) + 1
                                          ELSE DictGet(org_systems, OrgName(row)))
                /\ nodes' = Append(nodes, GroupNode(row, idx))
                /\ elem_by_id' = DictPut(elem_by_id, row.ID, g)
                /\ groups_by_id' = DictPut(groups_by_id, row.ID, g)
           ELSE UNCHANGED << org_systems, nodes, elem_by_id, groups_by_id >>
    /\ idx' = idx + 1
    /\ UNCHANGED << inputs, pc, container_parent, seen, rels, views, styled, warnings,
                    error, dsl_written, exit_code, logged_error, peer >>

GroupsDone ==
    /\ pc = "groups"
    /\ idx > Len(apps)
    /\ pc' = "containers"
    /\ idx' = 1
    /\ UNCHANGED << inputs, graph, error, dsl_written, exit_code, logged_error, peer >>

\* one row of the loop over apps[apps["Component"] == "#"]
ContainerRow ==
    /\ pc = "containers"
    /\ idx <= Len(apps)
    /\ LET row    == apps[idx]
            parent == ParentOf(groups_by_id, row)
            c      == Len(nodes) + 1
       IN  IF ~row.Component
           THEN UNCHANGED << nodes, elem_by_id, container_parent, warnings >>
           ELSE IF parent = 0
           THEN /\ warnings' = Append(warnings, [what |-> "Skip container", id |-> row.ID,
                                                  parent |-> row.ParentAppID, row |-> idx])
                /\ UNCHANGED << nodes, elem_by_id, container_parent >>
           ELSE /\ nodes' = Append([nodes EXCEPT ![parent].elements = Append(@, c)],
                                   ContainerNode(row, idx, parent))
                /\ elem_by_id' = DictPut(elem_by_id, row.ID, c)
                /\ container_parent' = DictPut(container_parent, c, parent)
                /\ UNCHANGED warnings
    /\ idx' = idx + 1
    /\ UNCHANGED << inputs, pc, org_systems, groups_by_id, seen, rels, views, styled,
                    error, dsl_written, exit_code, logged_error, peer >>

ContainersDone ==
    /\ pc = "containers"
    /\ idx > Len(apps)
    /\ pc' = "flows"
    /\ idx' = 1
    /\ UNCHANGED << inputs, graph, error, dsl_written, exit_code, logged_error, peer >>

\* (mutant of FlowStep) the BusinessProcess cell of a row is read, and its endpoints
\* tagged, before the key of the row is looked up in seen
FlowStep_TagsBeforeDedup ==
    /\ pc = "flows"
    /\ idx <= Len(flows)
    /\ LET f   == flows[idx]
            src == DictGet(elem_by_id, f.Outbound)
            dst == DictGet(elem_by_id, f.Inbound)
       IN  IF src = 0 \/ dst = 0
           THEN UNCHANGED << nodes, seen, rels >>
           ELSE /\ \E o \in Orders(split_multi(f.BusinessProcess)) :
                      nodes' = TagTokens(nodes, src, dst, o)
                /\ IF FlowKey(f) \in seen THEN UNCHANGED << seen, rels >>
                   ELSE /\ seen' = seen \cup { FlowKey(f) }
                        /\ rels' = Append(rels, Relationship(elem_by_id, f, idx))
    /\ idx' = idx + 1
    /\ UNCHANGED << inputs, pc, org_systems, elem_by_id, groups_by_id, container_parent,
                    views, styled, warnings, error, dsl_written, exit_code, logged_error,
                    peer >>

\* one row of the loop over flows
FlowStep ==
    /\ pc = "flows"
    /\ idx <= Len(flows)
    /\ LET f == flows[idx]
       IN  IF FlowSkipped(elem_by_id, seen, f)
           THEN UNCHANGED << nodes, seen, rels >>
           ELSE /\ seen' = seen \cup { FlowKey(f) }
                /\ rels' = Append(rels, Relationship(elem_by_id, f, idx))
                /\ \E o \in Orders(split_multi(f.BusinessProcess)) :
                      nodes' = TagTokens(nodes, DictGet(elem_by_id, f.Outbound),
                                         DictGet(elem_by_id, f.Inbound), o)
    /\ idx' = idx + 1
    /\ UNCHANGED << inputs, pc, org_systems, elem_by_id, groups_by_id, container_parent,
                    views, styled, warnings, error, dsl_written, exit_code, logged_error, peer >>

\* (mutant of FlowsDone) the loop over flows is left before its last row
FlowsDone_Early ==
    /\ pc = "flows"
    /\ idx >= Len(flows)
    /\ pc' = "propagate"
    /\ idx' = 1
    /\ UNCHANGED << inputs, graph, error, dsl_written, exit_code, logged_error, peer >>

FlowsDone ==
    /\ pc = "flows"
    /\ idx > Len(flows)
    /\ pc' = "propagate"
    /\ idx' = 1
    /\ UNCHANGED << inputs, graph, error, dsl_written, exit_code, logged_error, peer >>

\* one item of the loop over container_parent.items()
PropagateStep ==
    /\ pc = "propagate"
    /\ idx <= Len(container_parent)
    /\ LET cont == container_parent[idx].k
            grp  == container_parent[idx].v
       IN  nodes' = [nodes EXCEPT ![grp].tags = CopyProcTags(nodes[cont].tags, @)]
    /\ idx' = idx + 1
    /\ UNCHANGED << inputs, pc, org_systems, elem_by_id, groups_by_id, container_parent,
                    seen, rels, views, styled, warnings, error, dsl_written, exit_code, logged_error, peer >>

PropagateDone ==
    /\ pc = "propagate"
    /\ idx > Len(container_parent)
    /\ pc' = "views"
    /\ idx' = 1
    /\ UNCHANGED << inputs, graph, error, dsl_written, exit_code, logged_error, peer >>

\* one row of the loop over procs
ViewStep ==
    /\ pc = "views"
    /\ idx <= Len(procs)
    /\ IF ProcKeyError(procs_columns, procs[idx]) # NoError
       THEN /\ error' = ProcKeyError(procs_columns, procs[idx])
            /\ pc' = "raised"
            /\ UNCHANGED << views, idx >>
       ELSE /\ views' = IF Strip(procs[idx].ID) = << >> THEN views
                        ELSE Append(views, ProcessView(nodes, groups_by_id, procs[idx], idx))
            /\ idx' = idx + 1
            /\ UNCHANGED << pc, error >>
    /\ UNCHANGED << inputs, nodes, org_systems, elem_by_id, groups_by_id,
                    container_parent, seen, rels, styled, warnings, dsl_written,
                    exit_code, logged_error, peer >>

\* ws.Styles(*STYLES); return ws
StylesAndReturn ==
    /\ pc = "views"
    /\ idx > Len(procs)
    /\ styled' = TRUE
    /\ pc' = IF entry = "lib" THEN "returned" ELSE "write"
    /\ UNCHANGED << inputs, idx, nodes, org_systems, elem_by_id, groups_by_id,
                    container_parent, seen, rels, views, warnings, error, dsl_written,
                    exit_code, logged_error, peer >>

\* main: dsl_path.write_text(ws.dump()); the process ends with code 0
WriteDsl ==
    /\ pc = "write"
    /\ dsl_written' = TRUE
    /\ exit_code' = 0
    /\ pc' = "exited"
    /\ UNCHANGED << inputs, graph, idx, error, logged_error, peer >>

Next ==
    \/ Validate
    \/ ExitOnError
    \/ GroupRow
    \/ GroupsDone
    \/ ContainerRow
    \/ ContainersDone
    \/ FlowStep
    \/ FlowsDone
    \/ PropagateStep
    \/ PropagateDone
    \/ ViewStep
    \/ StylesAndReturn
    \/ WriteDsl

Spec == Init /\ [][Next]_vars

\* the runs of the cli entry point
InitCli == Init /\ entry = "cli"

\* the program is sequential and never waits: it always takes its next step
FairSpec == InitCli /\ [][Next]_vars /\ WF_vars(Next)

----------------------------------------------------------------------------
(* build_workspace as a function of its arguments: a call is the record of its        *)
(* arguments, its locals and its position, and BuildSteps gives the calls one step    *)
(* later (several when a set of tokens can be iterated in several orders)             *)

\* the call build_workspace(a, f, p) at its first line
Begin(a, f, p, pcols) ==
    [apps |-> a, flows |-> f, procs |-> p, procs_columns |-> pcols,
     pc |-> "groups", idx |-> 1,
     nodes |-> << >>, org_systems |-> << >>, elem_by_id |-> << >>, groups_by_id |-> << >>,
     container_parent |-> << >>, seen |-> { }, rels |-> << >>, views |-> << >>,
     styled |-> FALSE, warnings |-> << >>, error |-> NoError]

\* one row of the loop over apps[apps["Application"] == "#"]
GroupRowOf(b) ==
    LET row == b.apps[b.idx]
        g   == Len(b.nodes) + 1
    IN  IF row.Application
        THEN [b EXCEPT !.org_systems = DictPut(@, OrgName(row),
                                               IF DictGet(@, OrgName(row)) = 0
                                               THEN Len(@) + 1
                                               ELSE DictGet(@, OrgName(row))),
                       !.nodes = Append(@, GroupNode(row, b.idx)),
                       !.elem_by_id = DictPut(@, row.ID, g),
                       !.groups_by_id = DictPut(@, row.ID, g),
                       !.idx = @ + 1]
        ELSE [b EXCEPT !.idx = @ + 1]

\* one row of the loop over apps[apps["Component"] == "#"]
ContainerRowOf(b) ==
    LET row    == b.apps[b.idx]
        parent == ParentOf(b.groups_by_id, row)
        c      == Len(b.nodes) + 1
    IN  IF ~ row.Component THEN [b EXCEPT !.idx = @ + 1]
        ELSE IF parent = 0
        THEN [b EXCEPT !.warnings = Append(@, [what |-> "Skip container", id |-> row.ID,
                                               parent |-> row.ParentAppID, row |-> b.idx]),
                       !.idx = @ + 1]
        ELSE [b EXCEPT !.nodes = Append([@ EXCEPT ![parent].elements = Append(@, c)],
                                        ContainerNode(row, b.idx, parent)),
                       !.elem_by_id = DictPut(@, row.ID, c),
                       !.container_parent = DictPut(@, c, parent),
                       !.idx = @ + 1]

\* one row of the loop over flows, for each order of the row's tokens
FlowStepsOf(b) ==
    LET f == b.flows[b.idx]
    IN  IF FlowSkipped(b.elem_by_id, b.seen, f) THEN { [b EXCEPT !.idx = @ + 1] }
        ELSE { [b EXCEPT !.seen = @ \cup { FlowKey(f) },
                         !.rels = Append(@, Relationship(b.elem_by_id, f, b.idx)),
                         !.nodes = TagTokens(@, DictGet(b.elem_by_id, f.Outbound),
                                             DictGet(b.elem_by_id, f.Inbound), o),
                         !.idx = @ + 1] :
               o \in Orders(split_multi(f.BusinessProcess)) }

\* one item of the loop over container_parent.items()
PropagateStepOf(b) ==
    LET cont == b.container_parent[b.idx].k
        grp  == b.container_parent[b.idx].v
    IN  [b EXCEPT !.nodes = [@ EXCEPT ![grp].tags = CopyProcTags(b.nodes[cont].tags, @)],
                  !.idx = @ + 1]

\* one row of the loop over procs
ViewStepOf(b) ==
    IF ProcKeyError(b.procs_columns, b.procs[b.idx]) # NoError
    THEN [b EXCEPT !.error = ProcKeyError(b.procs_columns, b.procs[b.idx]), !.pc = "raised"]
    ELSE IF Strip(b.procs[b.idx].ID) = << >> THEN [b EXCEPT !.idx = @ + 1]
    ELSE [b EXCEPT !.views = Append(@, ProcessView(b.nodes, b.groups_by_id,
                                                   b.procs[b.idx], b.idx)),
                   !.idx = @ + 1]

\* the next loop starts
NextLoop(b, pc_) == [b EXCEPT !.pc = pc_, !.idx = 1]

\* the calls one step after b; none when b has returned or raised
BuildSteps(b) ==
    CASE b.pc = "groups" ->
            IF b.idx <= Len(b.apps) THEN { GroupRowOf(b) } ELSE { NextLoop(b, "containers") }
      [] b.pc = "containers" ->
            IF b.idx <= Len(b.apps) THEN { ContainerRowOf(b) } ELSE { NextLoop(b, "flows") }
      [] b.pc = "flows" ->
            IF b.idx <= Len(b.flows) THEN FlowStepsOf(b) ELSE { NextLoop(b, "propagate") }
      [] b.pc = "propagate" ->
            IF b.idx <= Len(b.container_parent) THEN { PropagateStepOf(b) }
            ELSE { NextLoop(b, "views") }
      [] b.pc = "views" ->
            IF b.idx <= Len(b.procs) THEN { ViewStepOf(b) }
            ELSE { [b EXCEPT !.styled = TRUE, !.pc = "returned"] }
      [] OTHER -> { }

\* the call run to its end (one of its ends, when token orders give several)
RECURSIVE RunToEnd(_)
RunToEnd(b) ==
    IF BuildSteps(b) = { } THEN b ELSE RunToEnd(CHOOSE nb \in BuildSteps(b) : TRUE)

----------------------------------------------------------------------------
(* Two build_workspace calls at the same time (two threads of a service): the call of *)
(* the variables and the call peer, their steps interleaved in any order.  Everything *)
(* a call writes is a local of the call (ws, model, elem_by_id, groups_by_id,         *)
(* container_parent, org_systems, seen) or an object it created; the module-level     *)
(* names (the dump patches, STYLES) are only read.                                    *)

own == << inputs, graph, pc, idx, error, dsl_written, exit_code, logged_error >>

\* (mutant of PeerStep) the dedup set is one set for both calls
PeerStep_SharedSeen ==
    /\ \E nb \in BuildSteps([peer EXCEPT !.seen = @ \cup seen]) : peer' = nb
    /\ UNCHANGED own

\* one step of the second call
PeerStep ==
    /\ \E nb \in BuildSteps(peer) : peer' = nb
    /\ UNCHANGED own

\* two calls on different inputs
InitPair ==
    \E a1 \in AppsCore, f1 \in FlowsCore, a2 \in AppsCore, f2 \in FlowsCore, p \in ProcsCore :
        /\ << a1, f1 >> # << a2, f2 >>
        /\ StartWith("lib", { }, AllColumns, a1, f1, p, Begin(a2, f2, p, PROC_COLUMNS))

NextPair ==
    \/ GroupRow
    \/ GroupsDone
    \/ ContainerRow
    \/ ContainersDone
    \/ FlowStep
    \/ FlowsDone
    \/ PropagateStep
    \/ PropagateDone
    \/ ViewStep
    \/ StylesAndReturn
    \/ PeerStep

SpecPair == InitPair /\ [][NextPair]_vars

----------------------------------------------------------------------------
(* The script generate_pystructurizr.py: what differs from the package *)

SCRIPT_REQUIRED_APP == { "ID", "Name", "Application", "Component", "ParentAppID", "Status" }

\* validate(apps, flows) of the script: the ValueError it raises, or NoError
ScriptValidateResult(acols, fcols, a, f) ==
    IF SCRIPT_REQUIRED_APP \ acols # { }
    THEN [kind |-> "ValueError", what |-> "Applications missing",
          cols |-> SCRIPT_REQUIRED_APP \ acols, rows |-> << >>]
    ELSE IF REQUIRED_FLOW \ fcols # { }
    THEN [kind |-> "ValueError", what |-> "Flows missing",
          cols |-> REQUIRED_FLOW \ fcols, rows |-> << >>]
    ELSE IF BadParentRows(a) # << >>
    THEN [kind |-> "ValueError", what |-> "Invalid ParentAppID rows",
          cols |-> { }, rows |-> BadParentRows(a)]
    ELSE IF BadEndpointRows(a, f, "Outbound") # << >>
    THEN [kind |-> "ValueError", what |-> "Outbound unknown IDs rows",
          cols |-> { }, rows |-> BadEndpointRows(a, f, "Outbound")]
    ELSE IF BadEndpointRows(a, f, "Inbound") # << >>
    THEN [kind |-> "ValueError", what |-> "Inbound unknown IDs rows",
          cols |-> { }, rows |-> BadEndpointRows(a, f, "Inbound")]
    ELSE NoError

\* body of the loop over the rows with Application == "#": a new SoftwareSystem
SystemNode(row, r) ==
    [kind |-> "SoftwareSystem", id |-> row.ID, row |-> r, name |-> row.Name,
     description |-> "", system |-> "", parent |-> 0,
     tags |-> << KindTag("ApplicationSystem"), StatusTag(row.Status) >>,
     elements |-> << >>]

\* src.uses(dst, label, f["Protocol"]), the label being "Name / Objet (Format)"
ScriptRelationship(ebi, f, r) ==
    [src |-> DictGet(ebi, f.Outbound), dst |-> DictGet(ebi, f.Inbound),
     desc |-> << f.Name, f.Objet, f.Format >>,
     protocol |-> f.Protocol, row |-> r]

\* the ContainerView of each system that has elements
RECURSIVE ContainerViews(_, _)
ContainerViews(ns, syss) ==
    IF syss = << >> THEN << >>
    ELSE (IF ns[Head(syss)].elements # << >>
          THEN << [key |-> << "Container" >>, title |-> << "Containers" >>,
                   element |-> Head(syss), row |-> 0,
                   includes |-> << >>, excludes |-> << >>] >>
          ELSE << >>)
         \o ContainerViews(ns, Tail(syss))

\* the standard views: SystemLandscape, and one ContainerView per system
StandardViews(vset, ns, sbi) ==
    (IF "system" \in vset
     THEN << [key |-> << "SystemLandscape" >>, title |-> << "All systems" >>,
              element |-> 0, row |-> 0, includes |-> << >>, excludes |-> << >>] >>
     ELSE << >>)
    \o (IF "container" \in vset THEN ContainerViews(ns, DictValues(sbi)) ELSE << >>)

\* the elements c of a system without the tag, in the order of sys_el.elements
RECURSIVE NotTaggedIn(_, _, _)
NotTaggedIn(ns, elems, tag) ==
    IF elems = << >> THEN << >>
    ELSE (IF Contains(ns[Head(elems)].tags, tag) THEN << >> ELSE << Head(elems) >>)
         \o NotTaggedIn(ns, Tail(elems), tag)

\* the process views of one BusinessProcesses row: one per system that has a
\* container with the tag, none for the other systems; the key is kept as the pair
\* of "Proc" + camel(pname) and the system's name (an opaque string here)
RECURSIVE SystemProcessViews(_, _, _, _, _)
SystemProcessViews(ns, syss, tag, pname, r) ==
    IF syss = << >> THEN << >>
    ELSE LET sys_el == Head(syss)
             conts  == TaggedIn(ns, ns[sys_el].elements, tag)
         IN  (IF conts = << >> THEN << >>
              ELSE << [key |-> << ProcKeyPrefix \o camel(pname), ns[sys_el].name >>,
                       title |-> pname, element |-> sys_el, row |-> r,
                       includes |-> << sys_el >> \o conts,
                       excludes |-> NotTaggedIn(ns, ns[sys_el].elements, tag)] >>)
             \o SystemProcessViews(ns, Tail(syss), tag, pname, r)

\* body of the loop over the BusinessProcesses rows with a non-empty ID
ScriptProcessViews(ns, sbi, bp, r) ==
    LET pid   == Strip(bp.ID)
        pname == IF Strip(bp.Name) = << >> THEN pid ELSE Strip(bp.Name)
    IN  SystemProcessViews(ns, DictValues(sbi), ProcTag(StrLower(pid)), pname, r)

\* main: validate(apps, flows)
ScriptValidate ==
    /\ pc = "validate"
    /\ error' = ScriptValidateResult(apps_columns, flows_columns, apps, flows)
    /\ pc' = IF error' = NoError THEN "groups" ELSE "raised"
    /\ UNCHANGED << inputs, graph, idx, dsl_written, exit_code, logged_error, peer >>

\* one row of the loop over apps[apps["Application"] == "#"]; groups_by_id stands for
\* systems_by_id
ScriptSystemRow ==
    /\ pc = "groups"
    /\ idx <= Len(apps)
    /\ LET row == apps[idx]
            g   == Len(nodes) + 1
       IN  IF row.Application
           THEN /\ nodes' = Append(nodes, SystemNode(row, idx))
                /\ elem_by_id' = DictPut(elem_by_id, row.ID, g)
                /\ groups_by_id' = DictPut(groups_by_id, row.ID, g)
           ELSE UNCHANGED << nodes, elem_by_id, groups_by_id >>
    /\ idx' = idx + 1
    /\ UNCHANGED << inputs, pc, org_systems, container_parent, seen, rels, views, styled,
                    warnings, error, dsl_written, exit_code, logged_error, peer >>

\* one row of the loop over flows
ScriptFlowStep ==
    /\ pc = "flows"
    /\ idx <= Len(flows)
    /\ LET f == flows[idx]
       IN  IF FlowSkipped(elem_by_id, seen, f)
           THEN UNCHANGED << nodes, seen, rels >>
           ELSE /\ seen' = seen \cup { FlowKey(f) }
                /\ rels' = Append(rels, ScriptRelationship(elem_by_id, f, idx))
                /\ \E o \in Orders(split_multi(f.BusinessProcess)) :
                      nodes' = TagTokens(nodes, DictGet(elem_by_id, f.Outbound),
                                         DictGet(elem_by_id, f.Inbound), o)
    /\ idx' = idx + 1
    /\ UNCHANGED << inputs, pc, org_systems, elem_by_id, groups_by_id, container_parent,
                    views, styled, warnings, error, dsl_written, exit_code, logged_error, peer >>

\* the end of the upward copy, then the standard views
ScriptStandardViews ==
    /\ pc = "propagate"
    /\ idx > Len(container_parent)
    /\ views' = views \o StandardViews(views_spec, nodes, groups_by_id)
    /\ pc' = "views"
    /\ idx' = 1
    /\ UNCHANGED << inputs, nodes, org_systems, elem_by_id, groups_by_id,
                    container_parent, seen, rels, styled, warnings, error, dsl_written,
                    exit_code, logged_error, peer >>

\* one row of the loop over processes
ScriptViewStep ==
    /\ pc = "views"
    /\ idx <= Len(procs)
    /\ IF ProcKeyError(procs_columns, procs[idx]) # NoError
       THEN /\ error' = ProcKeyError(procs_columns, procs[idx])
            /\ pc' = "raised"
            /\ UNCHANGED << views, idx >>
       ELSE /\ views' = IF Strip(procs[idx].ID) = << >> THEN views
                        ELSE views \o ScriptProcessViews(nodes, groups_by_id, procs[idx], idx)
            /\ idx' = idx + 1
            /\ UNCHANGED << pc, error >>
    /\ UNCHANGED << inputs, nodes, org_systems, elem_by_id, groups_by_id,
                    container_parent, seen, rels, styled, warnings, dsl_written,
                    exit_code, logged_error, peer >>

ViewsSpecs == { { "system", "container" }, { } }

\* process IDs as the script reads them: cells are not stripped on loading
ScriptProcs ==
    ProcsWide \cup { << ProcRow(<< Blank, "P" >>, << >>), ProcRow(<< "q" >>, << "p", Blank >>) >> }

InitScript ==
    \/ \E vs \in ViewsSpecs, a \in AppsCore, f \in FlowsCore, p \in ScriptProcs :
          Start("script", vs, AllColumns, a, f, p)
    \/ \E a \in AppsCore, f \in FlowsWide, p \in ProcsCore :
          Start("script", { "system", "container" }, AllColumns, a, f, p)
    \/ \E c \in ColumnCases, a \in AppsCore, f \in FlowsCore, p \in ProcsCore :
          Start("script", { "system", "container" }, c, a, f, p)

NextScript ==
    \/ ScriptValidate
    \/ ExitOnError
    \/ ScriptSystemRow
    \/ GroupsDone
    \/ ContainerRow
    \/ ContainersDone
    \/ ScriptFlowStep
    \/ FlowsDone
    \/ PropagateStep
    \/ ScriptStandardViews
    \/ ScriptViewStep
    \/ StylesAndReturn
    \/ WriteDsl

SpecScript == InitScript /\ [][NextScript]_vars

----------------------------------------------------------------------------
(* Vocabulary of the properties *)

AppRowsIdx == 1..Len(apps)
NodeIdx == 1..Len(nodes)
GroupNodes == { n \in NodeIdx : nodes[n].kind = "Group" }
ContainerNodes == { n \in NodeIdx : nodes[n].kind = "Container" }

\* the run ended without an exception
Finished == pc = "returned" \/ (pc = "exited" /\ exit_code = 0)

\* the run was aborted by an exception
Aborted == pc \in { "raised", "exited" } /\ error # NoError /\ exit_code # 0

\* row k is flagged Component and its ParentAppID is the ID of no row flagged Application
OrphanContainerRow(k) ==
    /\ apps[k].Component
    /\ ~ \E j \in AppRowsIdx : apps[j].Application /\ apps[j].ID = apps[k].ParentAppID

\* row k is flagged Component and its ParentAppID is no value of the ID column
AbsentParentRow(k) ==
    /\ apps[k].Component
    /\ ~ \E j \in AppRowsIdx : apps[j].ID = apps[k].ParentAppID

\* build_workspace raised: the only exception of the model's build is the KeyError of
\* the loop over the BusinessProcesses rows
BuildFailed == error.kind = "KeyError"

SchemaOk == REQUIRED_APP \subseteq apps_columns /\ REQUIRED_FLOW \subseteq flows_columns

----------------------------------------------------------------------------
(* C1 *)

\* C1: a Container row whose ParentAppID resolves to no Group of the build fails the
\* whole run and is never skipped: no run of the cli pipeline on a table with such a
\* row ends with exit code 0, and no such row is skipped with a warning.
C1_OrphanContainerIsFatal ==
    \A k \in AppRowsIdx :
        (entry = "cli" /\ OrphanContainerRow(k)) =>
            /\ ~ Finished
            /\ ~ \E w \in 1..Len(warnings) : warnings[w].row = k

----------------------------------------------------------------------------
(* C2 *)

\* C2: in the cli pipeline, on tables that carry every required column, once validate
\* has run, a Container row whose ParentAppID is no value of the ID column has aborted
\* the run with the "Invalid ParentAppID rows" error, whose message lists the row's
\* index (0-based); nothing of the graph is built, the row is not skipped with a
\* warning, no DSL is written and the exit code is not 0.
C2_AbsentParentAborts ==
    (entry = "cli" /\ SchemaOk /\ pc # "validate") =>
        \A k \in AppRowsIdx :
            AbsentParentRow(k) =>
                /\ pc \in { "raised", "exited" }
                /\ error.kind = "ValueError"
                /\ error.what = "Invalid ParentAppID rows"
                /\ Contains(error.rows, k - 1)
                /\ nodes = << >> /\ rels = << >> /\ views = << >>
                /\ warnings = << >>
                /\ ~ dsl_written
                /\ exit_code # 0

\* C2 witness: the run exited with code 1 on a table with two rows of absent parent,
\* both named in the error
C2_Witness ==
    /\ entry = "cli" /\ SchemaOk /\ pc = "exited" /\ exit_code = 1
    /\ \E k1, k2 \in AppRowsIdx : k1 < k2 /\ AbsentParentRow(k1) /\ AbsentParentRow(k2)
    /\ Len(error.rows) = 2

----------------------------------------------------------------------------
(* C3 *)

\* C3: at every point of build_workspace, and in the graph it returns, each Container
\* has a parent that is a Group of the same graph, is an element of that Group and of
\* no other Group (exactly once), and is mapped to it by container_parent.
C3_NoDanglingContainer ==
    \A c \in ContainerNodes :
        /\ nodes[c].parent \in GroupNodes
        /\ { g \in GroupNodes : Contains(nodes[g].elements, c) } = { nodes[c].parent }
        /\ Cardinality({ j \in 1..Len(nodes[nodes[c].parent].elements) :
                            nodes[nodes[c].parent].elements[j] = c }) = 1
        /\ DictGet(container_parent, c) = nodes[c].parent

\* C3 witness: build_workspace returned a graph with a Container, from a table in
\* which another Container row had no Group to go to
C3_Witness ==
    /\ Finished
    /\ ContainerNodes # { }
    /\ \E k \in AppRowsIdx : OrphanContainerRow(k)

----------------------------------------------------------------------------
(* C4, C5 *)

FlowRowsIdx == 1..Len(flows)

\* nothing was raised up to the end of the loop over flows: there is no error, or the
\* error is the one of the later loop over the BusinessProcesses rows
FlowsRaisedNothing == error = NoError \/ BuildFailed

\* the flow rows the loop over flows has gone through
FlowRowsDone ==
    IF pc = "flows" THEN 1..(idx - 1)
    ELSE IF pc \in { "propagate", "views", "write", "returned" } \/ Finished \/ BuildFailed
    THEN FlowRowsIdx
    ELSE { }

\* both endpoints of flow row r are IDs of nodes of the graph
Resolvable(r) ==
    /\ \E n \in NodeIdx : DictGet(elem_by_id, flows[r].Outbound) = n
    /\ \E n \in NodeIdx : DictGet(elem_by_id, flows[r].Inbound) = n

\* rows r and q have the same (Outbound, Inbound, Objet, Protocol, Format)
SameKey(r, q) ==
    /\ flows[r].Outbound = flows[q].Outbound
    /\ flows[r].Inbound = flows[q].Inbound
    /\ flows[r].Objet = flows[q].Objet
    /\ flows[r].Protocol = flows[q].Protocol
    /\ flows[r].Format = flows[q].Format

KeyOf(r) ==
    << flows[r].Outbound, flows[r].Inbound, flows[r].Objet, flows[r].Protocol,
       flows[r].Format >>

\* r is the first resolvable row with its key
FirstOfKey(r) == Resolvable(r) /\ ~ \E q \in 1..(r - 1) : Resolvable(q) /\ SameKey(q, r)

RelIdx == 1..Len(rels)

\* C4: the Relationships are, in row order, exactly one per first resolvable row of
\* each key (Outbound, Inbound, Objet, Protocol, Format) among the rows gone through:
\* every Relationship comes from such a first row, every such first row has exactly
\* one Relationship, so their number is the number of distinct keys among the
\* resolvable rows; a later row with the same key adds nothing and raises no error.
C4_OneRelationshipPerKey ==
    /\ \A j \in RelIdx : rels[j].row \in FlowRowsDone /\ FirstOfKey(rels[j].row)
    /\ \A r \in FlowRowsDone :
           FirstOfKey(r) => Cardinality({ j \in RelIdx : rels[j].row = r }) = 1
    /\ \A j, k \in RelIdx : j < k => rels[j].row < rels[k].row
    /\ Len(rels) = Cardinality({ KeyOf(r) : r \in { q \in FlowRowsDone : Resolvable(q) } })
    /\ (FlowRowsDone # { } => FlowsRaisedNothing)

\* C4 witness: the build returned one Relationship for two resolvable rows of the same
\* key, built from the first of them
C4_Witness ==
    /\ Finished
    /\ Len(flows) >= 2 /\ Resolvable(1) /\ Resolvable(2) /\ SameKey(1, 2)
    /\ flows[1].BusinessProcess # flows[2].BusinessProcess
    /\ Len(rels) = 1 /\ rels[1].row = 1

\* C5: every Relationship has a source and a target that are nodes of the graph, the
\* nodes its row's Outbound and Inbound resolve to; a flow row gone through with an
\* unresolved endpoint has no Relationship, and going through it raises nothing: the
\* build is not aborted.
C5_RelationshipEndpointsResolve ==
    /\ \A j \in RelIdx :
           /\ rels[j].src \in NodeIdx /\ rels[j].dst \in NodeIdx
           /\ rels[j].src = DictGet(elem_by_id, flows[rels[j].row].Outbound)
           /\ rels[j].dst = DictGet(elem_by_id, flows[rels[j].row].Inbound)
    /\ \A r \in FlowRowsDone :
           ~ Resolvable(r) =>
               /\ ~ \E j \in RelIdx : rels[j].row = r
               /\ FlowsRaisedNothing

\* C5 witness: the build returned a graph with a Relationship although one flow row
\* had a resolved source and an unresolved target
C5_Witness ==
    /\ Finished
    /\ rels # << >>
    /\ \E r \in FlowRowsIdx :
           /\ DictGet(elem_by_id, flows[r].Outbound) # 0
           /\ DictGet(elem_by_id, flows[r].Inbound) = 0

----------------------------------------------------------------------------
(* C6, C7 *)

TagSet(n) == Range(nodes[n].tags)

\* the upward copy is over
Propagated == pc \in { "views", "write", "returned" } \/ Finished \/ BuildFailed

\* the Containers nested in Group g
ContainersOf(g) == { c \in ContainerNodes : nodes[c].parent = g }

\* the tag of the process of view v: proc:<lower-case ID>
ViewTag(v) == [ns |-> "proc", val |-> StrLower(Strip(procs[views[v].row].ID))]

ViewIdx == 1..Len(views)

\* C6: in the view derived for process p, the members under each Group g are exactly
\* the Containers of g that carry proc:<lower-case p.id>, once each; so g is in the
\* view if and only if one of its Containers carries the tag, and the Group itself is
\* never a member, whatever tags it carries.
C6_ViewMembers ==
    \A v \in ViewIdx :
        /\ \A g \in GroupNodes :
               { c \in Range(views[v].includes) : c \in ContainerNodes /\ nodes[c].parent = g }
                   = { c \in ContainersOf(g) : ViewTag(v) \in TagSet(c) }
        /\ Range(views[v].includes) \subseteq ContainerNodes
        /\ Cardinality(Range(views[v].includes)) = Len(views[v].includes)

\* C6 witness: a view with a member, while another Group carries the process tag itself
\* (as a flow endpoint), has no tagged Container and is absent from the view
C6_Witness ==
    \E v \in ViewIdx :
        /\ views[v].includes # << >>
        /\ \E g \in GroupNodes :
               /\ ViewTag(v) \in TagSet(g)
               /\ ~ \E c \in ContainersOf(g) : ViewTag(v) \in TagSet(c)
               /\ ~ \E k \in 1..Len(views[v].includes) :
                      nodes[views[v].includes[k]].parent = g

\* the items of container_parent the upward copy has gone through
PropagatedItems ==
    IF pc = "propagate" THEN 1..(idx - 1)
    ELSE IF Propagated THEN 1..Len(container_parent)
    ELSE { }

\* C7: once the upward copy has gone through a Container, every proc:* tag of the
\* Container is on its parent Group, and stays there: after build_workspace, a Group
\* holds the proc:* tags of all its Containers.
C7_GroupHoldsContainerProcTags ==
    /\ \A k \in PropagatedItems :
           \A t \in TagSet(container_parent[k].k) :
               t.ns = "proc" => t \in TagSet(container_parent[k].v)
    /\ Propagated =>
           \A c \in ContainerNodes :
               \A t \in TagSet(c) : t.ns = "proc" => t \in TagSet(nodes[c].parent)

\* C7 witness: the build returned a Group with two Containers that carry different
\* process tags, and the Group holds both
C7_Witness ==
    /\ Finished
    /\ \E g \in GroupNodes : \E c1, c2 \in ContainersOf(g) :
           \E t1 \in TagSet(c1) \ TagSet(c2), t2 \in TagSet(c2) \ TagSet(c1) :
               /\ t1.ns = "proc" /\ t2.ns = "proc"
               /\ c1 < c2
               /\ { t1, t2 } \subseteq TagSet(g)

----------------------------------------------------------------------------
(* C8 *)

\* the tokens of a multi-value cell: the maximal runs of characters other than comma,
\* semicolon and whitespace, in the lower-cased cell
TokensOf(cell) ==
    LET low    == StrLower(cell)
        IsSep(c) == c \in { ",", ";", " " }
    IN  { SubSeq(low, i, j) : << i, j >> \in
            { ij \in (1..Len(low)) \X (1..Len(low)) :
                /\ ij[1] <= ij[2]
                /\ \A k \in ij[1]..ij[2] : ~ IsSep(low[k])
                /\ (ij[1] = 1 \/ IsSep(low[ij[1] - 1]))
                /\ (ij[2] = Len(low) \/ IsSep(low[ij[2] + 1])) } }

\* C8: for each Relationship and each token of its row's BusinessProcess cell, the
\* source and the target carry proc:<token>; and no tag is twice in a node's tag list.
C8_EndpointsCarryProcTags ==
    /\ \A j \in RelIdx :
           \A t \in TokensOf(flows[rels[j].row].BusinessProcess) :
               /\ [ns |-> "proc", val |-> t] \in TagSet(rels[j].src)
               /\ [ns |-> "proc", val |-> t] \in TagSet(rels[j].dst)
    /\ \A n \in NodeIdx : Cardinality(TagSet(n)) = Len(nodes[n].tags)

\* C8 witness: a Relationship from a node to itself whose cell holds two tokens, one
\* written in upper case, and the node carries both process tags
C8_Witness ==
    \E j \in RelIdx :
        /\ rels[j].src = rels[j].dst
        /\ Cardinality(TokensOf(flows[rels[j].row].BusinessProcess)) = 2
        /\ flows[rels[j].row].BusinessProcess # StrLower(flows[rels[j].row].BusinessProcess)
        /\ Cardinality({ t \in TagSet(rels[j].src) : t.ns = "proc" }) = 2

----------------------------------------------------------------------------
(* C9 *)

\* the nodes with their process tags taken off
WithoutProcTags(ns) ==
    [n \in 1..Len(ns) |-> [ns[n] EXCEPT !.tags = SelectSeq(@, LAMBDA t : t.ns # "proc")]]

\* the tagging of the endpoints of the Relationships rs, taken in the order of rs
RECURSIVE ReplayFlows(_, _)
ReplayFlows(ns, rs) ==
    IF rs = << >> THEN ns
    ELSE LET r == Head(rs)
             tokens == split_multi(flows[r.row].BusinessProcess)
         IN  ReplayFlows(TagTokens(ns, r.src, r.dst, CHOOSE o \in Orders(tokens) : TRUE),
                         Tail(rs))

\* the upward copy over the items cp of container_parent
RECURSIVE ReplayPropagate(_, _)
ReplayPropagate(ns, cp) ==
    IF cp = << >> THEN ns
    ELSE ReplayPropagate(
             [ns EXCEPT ![Head(cp).v].tags = CopyProcTags(ns[Head(cp).k].tags, @)],
             Tail(cp))

TagSets(ns) == [n \in 1..Len(ns) |-> Range(ns[n].tags)]

\* the final tag sets are those of tag propagation over any permutation of the
\* Relationships; no node carries a process tag before the first flow row
OrderIndependent ==
    /\ (pc = "flows" /\ idx = 1) => WithoutProcTags(nodes) = nodes
    /\ Propagated =>
           \A o \in Orders(RelIdx) :
               TagSets(ReplayPropagate(
                           ReplayFlows(WithoutProcTags(nodes), [k \in RelIdx |-> rels[o[k]]]),
                           container_parent))
                   = TagSets(nodes)

\* a step removes no tag from any node, and no node
TagsOnlyGrow ==
    /\ Len(nodes) <= Len(nodes')
    /\ \A n \in NodeIdx : Range(nodes[n].tags) \subseteq Range(nodes'[n].tags)

\* C9: tag propagation over the Relationships in any permutation order gives the tag
\* sets the build ends with, on every node; and no step of the build removes a tag.
C9_TagsMonotonicOrderIndependent == [] OrderIndependent /\ [][TagsOnlyGrow]_vars

\* C9 witness: the build returned two Relationships with different process cells that
\* share an endpoint, a Container whose Group then holds both process tags
C9_Witness ==
    /\ Finished
    /\ Len(rels) >= 2
    /\ \E c \in ContainerNodes :
           /\ c \in { rels[1].src, rels[1].dst } \cap { rels[2].src, rels[2].dst }
           /\ split_multi(flows[rels[1].row].BusinessProcess)
                  # split_multi(flows[rels[2].row].BusinessProcess)
           /\ Cardinality({ t \in TagSet(nodes[c].parent) : t.ns = "proc" }) >= 2

----------------------------------------------------------------------------
(* C10 *)

\* the loop over the BusinessProcesses rows is over
ViewsDerived == pc = "write" \/ Finished

\* C10: every declared BusinessProcess (a row with an ID) yields a View, also when no
\* Group qualifies: once the views are derived, each such row has a view of its own.
C10_EveryProcessHasView ==
    ViewsDerived =>
        \A r \in 1..Len(procs) :
            Strip(procs[r].ID) # << >> => \E v \in ViewIdx : views[v].row = r

----------------------------------------------------------------------------
(* C11 *)

\* the name of the process of row r: the stripped Name, or the stripped ID when empty
ProcName(r) ==
    IF Strip(procs[r].Name) = << >> THEN Strip(procs[r].ID) ELSE Strip(procs[r].Name)

\* C11: the key of each process view is "Proc" + camel(name of its row), and the views
\* of two BusinessProcess rows with different names have different keys.
C11_ViewKeysCollisionFree ==
    /\ \A v \in ViewIdx : views[v].key = ProcKeyPrefix \o camel(ProcName(views[v].row))
    /\ \A v, w \in ViewIdx :
           ProcName(views[v].row) # ProcName(views[w].row) => views[v].key # views[w].key

----------------------------------------------------------------------------
(* C12 *)

\* the row indexes the error reports under the message what
ReportedRows(what) ==
    IF error.kind = "ValueError" /\ error.what = what THEN Range(error.rows) ELSE { }

\* the columns the error reports as missing
ReportedColumns == IF error.kind = "ValueError" THEN error.cols ELSE { }

\* C12: once validate has run in the cli pipeline, its single error reports the full
\* set of problems: every required column missing from the Applications or the Flows
\* table, and, on tables with all columns, every row with an unresolved parent, an
\* unresolved Outbound or an unresolved Inbound.
C12_ValidateReportsEverything ==
    (entry = "cli" /\ pc # "validate") =>
        /\ ReportedColumns = (REQUIRED_APP \ apps_columns) \cup (REQUIRED_FLOW \ flows_columns)
        /\ SchemaOk =>
               /\ ReportedRows("Invalid ParentAppID rows") = Range(BadParentRows(apps))
               /\ ReportedRows("Outbound unknown IDs rows")
                      = Range(BadEndpointRows(apps, flows, "Outbound"))
               /\ ReportedRows("Inbound unknown IDs rows")
                      = Range(BadEndpointRows(apps, flows, "Inbound"))

----------------------------------------------------------------------------
(* C13 *)

\* nothing of the graph exists
NoGraph ==
    /\ nodes = << >> /\ org_systems = << >> /\ elem_by_id = << >> /\ groups_by_id = << >>
    /\ container_parent = << >> /\ seen = { } /\ rels = << >> /\ views = << >>

\* after a failure of the cli pipeline no DSL is written, the process is in the handler
\* or has exited, and when it has exited the code is not 0 and the exception was
\* logged; a failure of validate (such as a missing column) leaves no graph at all;
\* exit code 0 means that the DSL was written and nothing failed
FailureIsFinal ==
    entry = "cli" =>
        /\ error # NoError =>
               /\ ~ dsl_written
               /\ pc \in { "raised", "exited" }
               /\ pc = "exited" => (exit_code \notin { 0, -1 } /\ logged_error = error)
        /\ error.kind = "ValueError" => NoGraph
        /\ exit_code = 0 => (dsl_written /\ error = NoError /\ logged_error = NoError)
        /\ pc = "exited" <=> exit_code # -1

\* a step after a failure constructs nothing and writes nothing
NothingPastFailure ==
    (entry = "cli" /\ error # NoError) => (graph' = graph /\ dsl_written' = dsl_written)

----------------------------------------------------------------------------
(* C14 *)

\* the input of the scenario: G1 top-level, C1 and C2 nested in G1, one flow C1 -> C2
\* of one process (the token "p" stands for "checkout"), and that process declared
ScenarioInput ==
    /\ Len(apps) = 3
    /\ apps[1].Application /\ ~ apps[1].Component
    /\ \A k \in { 2, 3 } :
           apps[k].Component /\ ~ apps[k].Application /\ apps[k].ParentAppID = apps[1].ID
    /\ Cardinality({ apps[1].ID, apps[2].ID, apps[3].ID }) = 3
    /\ Len(flows) = 1
    /\ flows[1].Outbound = apps[2].ID /\ flows[1].Inbound = apps[3].ID
    /\ TokensOf(flows[1].BusinessProcess) = { << "p" >> }
    /\ Len(procs) = 1 /\ StrLower(Strip(procs[1].ID)) = << "p" >>
    /\ procs_columns = PROC_COLUMNS

\* C14: on the input of the scenario the built graph has exactly one Group (G1) with
\* exactly the two Containers C1, C2 in that order, exactly one Relationship, from C1
\* to C2, the process tag on C1, C2 and G1, and one view whose members are C1, C2 in
\* that order, both under G1.
C14_Scenario ==
    (ScenarioInput /\ Finished) =>
        /\ Len(nodes) = 3
        /\ GroupNodes = { 1 } /\ nodes[1].id = apps[1].ID
        /\ ContainerNodes = { 2, 3 } /\ nodes[2].id = apps[2].ID /\ nodes[3].id = apps[3].ID
        /\ nodes[1].elements = << 2, 3 >>
        /\ nodes[2].parent = 1 /\ nodes[3].parent = 1
        /\ Len(rels) = 1 /\ rels[1].src = 2 /\ rels[1].dst = 3
        /\ \A n \in { 1, 2, 3 } :
               { t \in TagSet(n) : t.ns = "proc" } = { [ns |-> "proc", val |-> << "p" >>] }
        /\ Len(views) = 1 /\ views[1].includes = << 2, 3 >>

\* C14 witness: the build of the scenario returned
C14_Witness == ScenarioInput /\ Finished /\ Len(views) = 1

----------------------------------------------------------------------------
(* C15 *)

\* the running build_workspace call of the state, as a record
ThisBuild ==
    [apps |-> apps, flows |-> flows, procs |-> procs, procs_columns |-> procs_columns,
     pc |-> IF pc \in { "write", "exited" } /\ ~ BuildFailed THEN "returned" ELSE pc,
     idx |-> idx, nodes |-> nodes, org_systems |-> org_systems, elem_by_id |-> elem_by_id,
     groups_by_id |-> groups_by_id, container_parent |-> container_parent, seen |-> seen,
     rels |-> rels, views |-> views, styled |-> styled, warnings |-> warnings,
     error |-> error]

\* the Applications table with every Status emptied
WithoutStatus(a) == [k \in 1..Len(a) |-> [a[k] EXCEPT !.Status = ""]]

\* the topology of a build: its Groups and Containers with their names, parent links,
\* members and tags other than status:*, its Relationships and its views
Topology(b) ==
    [nodes |-> [n \in 1..Len(b.nodes) |->
                   [b.nodes[n] EXCEPT !.tags = { t \in Range(@) : t.ns # "status" }]],
     container_parent |-> b.container_parent,
     rels |-> b.rels,
     views |-> b.views]

\* C15: the graph a build ends with has the topology (Groups, Containers, parent links,
\* Relationships, proc:* tags, view members) of the build of the same input with every
\* Status emptied, so two inputs that differ only in Status give the same topology;
\* and each node carries exactly one status:* tag, that of its row, status:keep for an
\* empty Status.
C15_StatusNeverAffectsTopology ==
    Finished =>
        /\ Topology(ThisBuild)
               = Topology(RunToEnd(Begin(WithoutStatus(apps), flows, procs, procs_columns)))
        /\ \A n \in NodeIdx :
               { t \in TagSet(n) : t.ns = "status" }
                   = { [ns |-> "status",
                        val |-> << IF apps[nodes[n].row].Status = "" THEN "keep"
                                   ELSE apps[nodes[n].row].Status >>] }

\* C15 witness: a build returned a Relationship and a view one of whose members is a
\* Container of non-empty Status, under a Group whose row has another Status
C15_Witness ==
    /\ Finished
    /\ rels # << >>
    /\ \E v \in ViewIdx : \E k \in 1..Len(views[v].includes) :
           LET c == views[v].includes[k]
           IN  /\ apps[nodes[c].row].Status # ""
               /\ apps[nodes[nodes[c].parent].row].Status # apps[nodes[c].row].Status

----------------------------------------------------------------------------
(* C16 *)

\* C16: in the cli pipeline (the graph is built from input validate accepted) no two
\* nodes of the graph are created from the same ID value.
C16_NodeIdsUnique ==
    entry = "cli" =>
        \A n, m \in NodeIdx : n # m => nodes[n].id # nodes[m].id

----------------------------------------------------------------------------
(* C17 *)

\* C17: every Relationship of the graph built by the cli pipeline has a non-empty
\* label and a non-empty protocol, and the Format of its flow row is not empty.
C17_RelationshipMetadataNonEmpty ==
    entry = "cli" =>
        \A j \in RelIdx :
            /\ rels[j].desc # ""
            /\ rels[j].protocol # ""
            /\ flows[rels[j].row].Format # ""

----------------------------------------------------------------------------
(* C18 *)

\* what a call leaves behind, the order of tags within a node aside
Result(b) ==
    [nodes |-> [n \in 1..Len(b.nodes) |-> [b.nodes[n] EXCEPT !.tags = Range(@)]],
     org_systems |-> b.org_systems, elem_by_id |-> b.elem_by_id,
     groups_by_id |-> b.groups_by_id, container_parent |-> b.container_parent,
     seen |-> b.seen, rels |-> b.rels, views |-> b.views, styled |-> b.styled,
     warnings |-> b.warnings, error |-> b.error, pc |-> b.pc]

\* the result of the call b when it runs alone, from its arguments
Alone(b) == Result(RunToEnd(Begin(b.apps, b.flows, b.procs, b.procs_columns)))

\* each of the two calls, once returned, has the result it has alone
SameAsAlone ==
    /\ pc = "returned" => Result(ThisBuild) = Alone(ThisBuild)
    /\ peer.pc = "returned" => Result(peer) = Alone(peer)

\* a step of one call changes nothing of the other call
OwnStateOnly ==
    /\ peer' # peer => own' = own
    /\ own' # own => peer' = peer

\* C18: of two build_workspace calls whose steps are interleaved in any order, each
\* step changes the state of one call only, and each call returns the result it
\* returns when it runs alone.
C18_ConcurrentBuildsIndependent == [] SameAsAlone /\ [][OwnStateOnly]_vars

\* C18 witness: both calls have returned, with different graphs, and one flow key is
\* in the dedup set of each
C18_Witness ==
    /\ pc = "returned" /\ peer.pc = "returned"
    /\ rels # << >> /\ peer.rels # << >>
    /\ seen \cap peer.seen # { }
    /\ Result(ThisBuild) # Result(peer)

----------------------------------------------------------------------------
(* C19 *)

\* every flow row has been processed: each key of a resolvable row has its
\* Relationship, and the endpoints of each Relationship carry the tags of its row
AllFlowsProcessed ==
    /\ Len(rels) = Cardinality({ KeyOf(r) : r \in { q \in FlowRowsIdx : Resolvable(q) } })
    /\ \A j \in RelIdx : \A t \in TokensOf(flows[rels[j].row].BusinessProcess) :
           /\ [ns |-> "proc", val |-> t] \in TagSet(rels[j].src)
           /\ [ns |-> "proc", val |-> t] \in TagSet(rels[j].dst)

\* Group g carries a process tag that no Relationship of its own gave it: the upward
\* copy has started
UpwardCopied(g) ==
    \E t \in TagSet(g) :
        /\ t.ns = "proc"
        /\ ~ \E j \in RelIdx :
               /\ g \in { rels[j].src, rels[j].dst }
               /\ t.val \in TokensOf(flows[rels[j].row].BusinessProcess)

\* the upward copy is complete: each Group holds the process tags of its Containers
UpwardCopyComplete ==
    \A c \in ContainerNodes :
        \A t \in TagSet(c) : t.ns = "proc" => t \in TagSet(nodes[c].parent)

\* the upward copy runs on complete flows, the views exist on a complete upward copy
PhaseOrder ==
    /\ (pc = "propagate" \/ \E g \in GroupNodes : UpwardCopied(g)) => AllFlowsProcessed
    /\ (pc = "views" \/ views # << >>) => (AllFlowsProcessed /\ UpwardCopyComplete)

\* a step that derives a view starts from a complete graph and changes no node and no
\* Relationship; from the loop over the processes on, no node and no Relationship
\* changes; a step of the upward copy adds no Relationship
PhaseSteps ==
    /\ views' # views =>
           (AllFlowsProcessed /\ UpwardCopyComplete /\ nodes' = nodes /\ rels' = rels)
    /\ (pc = "views" \/ views # << >>) => (nodes' = nodes /\ rels' = rels)
    /\ pc = "propagate" => rels' = rels

\* C19: the upward copy of process tags starts only after every flow row has been
\* processed, the views are derived only after the upward copy has finished, and
\* from the derivation of the first view on no tag changes.
C19_PhaseOrdering == [] PhaseOrder /\ [][PhaseSteps]_vars

\* C19 witness: the build ended with two Relationships, a Group holding a tag copied
\* upward, and a view that has a member
C19_Witness ==
    /\ Finished
    /\ Len(rels) >= 2
    /\ \E g \in GroupNodes : UpwardCopied(g)
    /\ \E v \in ViewIdx : views[v].includes # << >>

----------------------------------------------------------------------------
(* C20 *)

\* a node without its tags
Untagged(n) == [n EXCEPT !.tags = << >>]

\* the tags of a node other than process tags, in order
OtherTags(n) == SelectSeq(n.tags, LAMBDA t : t.ns # "proc")

\* a step of the upward copy keeps every node and every field of it but the tags of
\* Groups; a Group keeps its tags in place and gets only process tags after them;
\* Relationships, dicts, dedup set, views and warnings stay as they are
PropagationFrame ==
    pc = "propagate" =>
        /\ Len(nodes') = Len(nodes)
        /\ \A n \in NodeIdx :
               /\ Untagged(nodes'[n]) = Untagged(nodes[n])
               /\ nodes[n].kind = "Container" => nodes'[n].tags = nodes[n].tags
               /\ nodes[n].kind = "Group" =>
                      /\ Len(nodes'[n].tags) >= Len(nodes[n].tags)
                      /\ SubSeq(nodes'[n].tags, 1, Len(nodes[n].tags)) = nodes[n].tags
                      /\ \A k \in (Len(nodes[n].tags) + 1)..Len(nodes'[n].tags) :
                             nodes'[n].tags[k].ns = "proc"
        /\ UNCHANGED << org_systems, elem_by_id, groups_by_id, container_parent, seen,
                        rels, views, styled, warnings >>

\* the tags of a Group other than process tags are its structural tag and the status
\* tag of its row, those of a Container likewise
OwnStructuralTags ==
    \A n \in GroupNodes \cup ContainerNodes :
        OtherTags(nodes[n])
            = << [ns |-> "kind",
                  val |-> << IF nodes[n].kind = "Group" THEN "ApplicationGroup"
                             ELSE "ApplicationContainer" >>],
                 [ns |-> "status",
                  val |-> << IF apps[nodes[n].row].Status = "" THEN "keep"
                             ELSE apps[nodes[n].row].Status >>] >>

\* C20: the upward propagation pass changes nothing but Group tag lists and adds to
\* them only proc:* tags: names, descriptions, kinds, parents, Container tags, the
\* structural and status tags of Groups and the Relationships are unchanged, and a
\* Container's status:* or ApplicationContainer tag is never on its Group.
C20_PropagationFrame == [] OwnStructuralTags /\ [][PropagationFrame]_vars

\* C20 witness: the upward copy has gone through a Container whose status differs
\* from its Group's and has given the Group a process tag
C20_Witness ==
    /\ pc = "propagate" /\ idx > 1
    /\ \E k \in 1..(idx - 1) :
           LET c == container_parent[k].k
               g == container_parent[k].v
           IN  /\ UpwardCopied(g)
               /\ apps[nodes[c].row].Status # apps[nodes[g].row].Status

----------------------------------------------------------------------------
(* C21 *)

\* the flow table with rows r and q swapped
Swapped(f, r, q) ==
    [k \in 1..Len(f) |-> IF k = r THEN f[q] ELSE IF k = q THEN f[r] ELSE f[k]]

\* the build of the same input with flow rows r and q swapped, run to its end
SwappedBuild(r, q) == RunToEnd(Begin(apps, Swapped(flows, r, q), procs, procs_columns))

\* C21: a process tag of a node comes from a Relationship the node is an endpoint of,
\* that is from the first resolvable flow row of a key, or, on a Group, from one of
\* its Containers; so a token that is only on later rows of a key is on no node.
C21_TagsFromFirstRowOnly ==
    \A n \in NodeIdx : \A t \in TagSet(n) :
        t.ns = "proc" =>
            /\ \/ \E j \in RelIdx :
                      /\ n \in { rels[j].src, rels[j].dst }
                      /\ FirstOfKey(rels[j].row)
                      /\ t.val \in TokensOf(flows[rels[j].row].BusinessProcess)
               \/ /\ nodes[n].kind = "Group"
                  /\ \E c \in ContainersOf(n) : t \in TagSet(c)
            /\ \E r \in FlowRowsIdx :
                   FirstOfKey(r) /\ t.val \in TokensOf(flows[r].BusinessProcess)

\* C21 witness: the build ended on two resolvable rows of one key, the later with a
\* token that is on no node; with the two rows swapped the build ends with other tag
\* sets and other views
C21_Witness ==
    /\ Finished
    /\ \E r, q \in FlowRowsIdx :
           /\ r < q /\ SameKey(r, q) /\ FirstOfKey(r)
           /\ \E x \in TokensOf(flows[q].BusinessProcess) :
                  \A n \in NodeIdx : [ns |-> "proc", val |-> x] \notin TagSet(n)
           /\ TagSets(SwappedBuild(r, q).nodes) # TagSets(nodes)
           /\ SwappedBuild(r, q).views # views

----------------------------------------------------------------------------
(* C22 *)

\* the values of the ID column
IdColumn == { apps[k].ID : k \in AppRowsIdx }

\* every ParentAppID of a Component row and every flow endpoint is a value of the ID
\* column, whatever the flags of the row that has it
ReferencesInIdColumn ==
    /\ \A k \in AppRowsIdx : apps[k].Component => apps[k].ParentAppID \in IdColumn
    /\ \A r \in FlowRowsIdx : flows[r].Outbound \in IdColumn /\ flows[r].Inbound \in IdColumn

\* no node was created from the ID
NoNodeOf(id) == \A n \in NodeIdx : nodes[n].id # id

\* C22: validate accepts a table with all columns exactly when every ParentAppID and
\* every flow endpoint is in the ID column; build_workspace resolves them against the
\* nodes it created, so in a run of the cli pipeline that ends with exit code 0 each
\* Component row whose parent is no Group has no Container and one "Skip container"
\* warning, each flow row with an endpoint that is no node has no Relationship and
\* no log message, and no error is raised for either.
C22_AcceptedInputCanBeDropped ==
    /\ (entry = "cli" /\ SchemaOk /\ pc # "validate") =>
           ((error.kind # "ValueError") <=> ReferencesInIdColumn)
    /\ (entry = "cli" /\ Finished) =>
           /\ error = NoError /\ dsl_written
           /\ \A k \in AppRowsIdx :
                  OrphanContainerRow(k) =>
                      /\ ~ \E c \in ContainerNodes : nodes[c].row = k
                      /\ Cardinality({ w \in 1..Len(warnings) : warnings[w].row = k }) = 1
           /\ \A r \in FlowRowsIdx :
                  ~ Resolvable(r) => ~ \E j \in RelIdx : rels[j].row = r
           /\ \A w \in 1..Len(warnings) :
                  warnings[w].what = "Skip container" /\ OrphanContainerRow(warnings[w].row)

\* C22 witness: the cli exited with code 0 on a table in which a Component row has an
\* inert row as parent and was skipped, one flow has the inert row as endpoint and
\* one flow the skipped container: both flows are dropped
C22_Witness ==
    /\ entry = "cli" /\ Finished /\ exit_code = 0
    /\ \E k, i \in AppRowsIdx :
           /\ OrphanContainerRow(k)
           /\ apps[i].ID = apps[k].ParentAppID
           /\ ~ apps[i].Application /\ ~ apps[i].Component
           /\ NoNodeOf(apps[i].ID) /\ NoNodeOf(apps[k].ID)
           /\ \E r, q \in FlowRowsIdx :
                  /\ apps[i].ID \in { flows[r].Outbound, flows[r].Inbound }
                  /\ apps[k].ID \in { flows[q].Outbound, flows[q].Inbound }
                  /\ ~ \E j \in RelIdx : rels[j].row \in { r, q }
    /\ Len(warnings) = 1

====
